---- MODULE Spec2Model ----
(***************************************************************************)
(* The Tabs widget of src/components/Tabs.tsx as a state machine.          *)
(*                                                                         *)
(* State: the props the host supplied at the last render (tabs,            *)
(* activeTabId, onTabChange), the two useState cells (validationErrors,    *)
(* internalActiveTabId), whether the validation effect of the last commit  *)
(* has still to run, and which rendered tab holds input focus.  Every      *)
(* action ends with the render pass React performs for it, so the render   *)
(* output (Output) and the values the handlers close over are functions of *)
(* the state.  event and calls record the event handled last and the       *)
(* onTabChange invocations made while it was handled.  scenarioStep        *)
(* observes how far the run has followed the end-to-end arrow scenario.    *)
(* twin is a second, controlled instance that is given the same list and   *)
(* the same events and whose host echoes every notification into its       *)
(* activeTabId; it is mounted in SpecEcho only.                            *)
(***************************************************************************)
EXTENDS Integers, Sequences, FiniteSets

VARIABLES tabs, activeTabId, onTabChange, validationErrors,
          internalActiveTabId, effectPending, focused, event, calls,
          scenarioStep, twin

vars == <<tabs, activeTabId, onTabChange, validationErrors,
          internalActiveTabId, effectPending, focused, event, calls,
          scenarioStep, twin>>

(***************************************************************************)
(* Bounds and the values the host draws its props from.                    *)
(***************************************************************************)
MaxTabs == 3

Undefined == "<undefined>"
Null == "<null>"

Ids == {"a", "b", "c"}

\* A well-formed TabObject: its label and content are functions of its id.
TabObject(i) == [id |-> i, label |-> "L" \o i, content |-> "P" \o i]

\* An entry lacking all three required properties.
Malformed == [id |-> Undefined, label |-> "", content |-> Null]

Entries == {TabObject(i) : i \in Ids} \cup {Malformed}

RECURSIVE SeqsUpTo(_, _)
SeqsUpTo(S, n) ==
    IF n = 0 THEN {<<>>}
    ELSE LET shorter == SeqsUpTo(S, n - 1)
         IN  shorter \cup {Append(s, e) : s \in {t \in shorter : Len(t) = n - 1}, e \in S}

\* props.tabs: an array of entries, or absent (null / undefined).
Absent == [isArray |-> FALSE, items |-> <<>>]
Array(s) == [isArray |-> TRUE, items |-> s]
TabInputs == {Absent} \cup {Array(s) : s \in SeqsUpTo(Entries, MaxTabs)}

\* tabs.length of a present list
Length(t) == Len(t.items)

\* The lists a host render replaces the list t by: absent, empty, a new array
\* with the same entries, t with an entry appended, t without its first or
\* its last entry.  Repeated renders reach every list of TabInputs.
NextTabInputs(t) ==
    {Absent, Array(<<>>), Array(t.items)}
    \cup {Array(Append(t.items, e)) : e \in {x \in Entries : Length(t) < MaxTabs}}
    \cup {Array(Tail(t.items)) : x \in {y \in {1} : Length(t) > 0}}
    \cup {Array(SubSeq(t.items, 1, Length(t) - 1)) : x \in {y \in {1} : Length(t) > 0}}

ActiveIdInputs == {Undefined} \cup Ids

\* Ids that are no CSS identifiers, and the ids of the lists whose tabs are
\* looked up by selector.
NotIdentifiers == {"c d"}
SelectorIds == {"a", "b", "c d"}
SelectorInputs ==
    {Array(s) : s \in {q \in SeqsUpTo({TabObject(i) : i \in SelectorIds}, MaxTabs) :
                          /\ Len(q) >= 1
                          /\ \A i, j \in 1..Len(q) : i # j => q[i].id # q[j].id}}

\* No second instance is mounted.
NoTwin == [activeTabId |-> Undefined, internal |-> "", focused |-> 0, calls |-> <<>>]

\* An entry that is itself null or undefined: it has no properties to read.
NotAnObject == "<not an object>"
NullEntry == [id |-> NotAnObject, label |-> NotAnObject, content |-> NotAnObject]

\* The entries the validation effect is run on: every combination of a
\* missing or given id, label and content, the falsy and the null variants
\* of each property, and the entry that is no object.
ValidatorEntries ==
    {[id |-> i, label |-> l, content |-> c] :
        i \in {Undefined, "a", "b"}, l \in {Undefined, "L"}, c \in {Undefined, "C"}}
    \cup {[id |-> "", label |-> "L", content |-> "C"],
          [id |-> "a", label |-> "", content |-> "C"],
          [id |-> "a", label |-> "L", content |-> ""],
          [id |-> "b", label |-> "L", content |-> Null],
          NullEntry}

ValidatorInputs == {Absent} \cup {Array(s) : s \in SeqsUpTo(ValidatorEntries, MaxTabs)}

(***************************************************************************)
(* JavaScript helpers.                                                     *)
(***************************************************************************)
\* !v for the values of this model
\* mutant: only undefined and null count as missing (a == null test)
Falsy_Nullish(v) == v \in {Undefined, Null}

Falsy(v) == v \in {Undefined, Null, ""}

\* tabs.findIndex(tab => tab.id === id): 0-based, -1 when nothing matches
FindIndex(t, id) ==
    LET hits == {i \in 1..Length(t) : t.items[i].id = id}
    IN  IF hits = {} THEN -1
        ELSE (CHOOSE i \in hits : \A j \in hits : i <= j) - 1

\* tabs.find(tab => tab.id === id), as the sequence of at most one match
Find(t, id) ==
    IF FindIndex(t, id) = -1 THEN <<>> ELSE <<t.items[FindIndex(t, id) + 1]>>

\* tabs[i] for a 0-based i, as the sequence of at most one element
At(t, i) == IF i >= 0 /\ i < Length(t) THEN <<t.items[i + 1]>> ELSE <<>>

(***************************************************************************)
(* The validation effect.                                                  *)
(***************************************************************************)
NoTabsError == [kind |-> "empty", index |-> -1]
MissingError(field, index) == [kind |-> field, index |-> index]
DuplicateError == [kind |-> "duplicate", index |-> -1]

\* mutant: the label is checked before the id
EntryErrors_LabelFirst(tab, index) ==
    (IF Falsy(tab.label) THEN <<MissingError("label", index)>> ELSE <<>>)
    \o (IF Falsy(tab.id) THEN <<MissingError("id", index)>> ELSE <<>>)
    \o (IF tab.content = Undefined \/ tab.content = Null
        THEN <<MissingError("content", index)>> ELSE <<>>)

\* mutant: the content is tested for falsiness like the id and the label
EntryErrors_FalsyContent(tab, index) ==
    (IF Falsy(tab.id) THEN <<MissingError("id", index)>> ELSE <<>>)
    \o (IF Falsy(tab.label) THEN <<MissingError("label", index)>> ELSE <<>>)
    \o (IF Falsy(tab.content) THEN <<MissingError("content", index)>> ELSE <<>>)

\* the three checks of one forEach iteration, index 0-based
EntryErrors(tab, index) ==
    (IF Falsy(tab.id) THEN <<MissingError("id", index)>> ELSE <<>>)
    \o (IF Falsy(tab.label) THEN <<MissingError("label", index)>> ELSE <<>>)
    \o (IF tab.content = Undefined \/ tab.content = Null
        THEN <<MissingError("content", index)>> ELSE <<>>)

RECURSIVE FieldErrors(_, _)
FieldErrors(items, n) ==
    IF n = 0 THEN <<>>
    ELSE FieldErrors(items, n - 1) \o EntryErrors(items[n], n - 1)

\* mutant: the ids are compared without .filter(Boolean)
HasDuplicateIds_NoFilter(items) ==
    Len(items) # Cardinality({items[i].id : i \in 1..Len(items)})

\* ids.length !== new Set(ids).size for ids = tabs.map(id).filter(Boolean)
HasDuplicateIds(items) ==
    LET kept == {i \in 1..Len(items) : ~Falsy(items[i].id)}
    IN  Cardinality(kept) # Cardinality({items[i].id : i \in kept})

\* mutant: the empty list passes validation
Validate_EmptyIsValid(t) ==
    IF ~t.isArray \/ Length(t) = 0 THEN <<>>
    ELSE FieldErrors(t.items, Length(t))
         \o (IF HasDuplicateIds(t.items) THEN <<DuplicateError>> ELSE <<>>)

\* mutant: a list of one entry is taken for an empty one (length <= 1)
Validate_SingleIsEmpty(t) ==
    IF ~t.isArray THEN <<>>
    ELSE IF Length(t) <= 1 THEN <<NoTabsError>>
    ELSE FieldErrors(t.items, Length(t))
         \o (IF HasDuplicateIds(t.items) THEN <<DuplicateError>> ELSE <<>>)

\* tab.id of an entry that is null or undefined raises a TypeError, which
\* leaves the effect before setValidationErrors
ValidateThrows(t) ==
    t.isArray /\ \E i \in 1..Length(t) : t.items[i] = NullEntry

Validate(t) ==
    IF ~t.isArray THEN <<>>
    ELSE IF Length(t) = 0 THEN <<NoTabsError>>
    ELSE FieldErrors(t.items, Length(t))
         \o (IF HasDuplicateIds(t.items) THEN <<DuplicateError>> ELSE <<>>)

(***************************************************************************)
(* Values derived in every render pass.                                    *)
(***************************************************************************)
IsControlled(a) == a # Undefined

\* mutant: the internal id wins over the host's (internalActiveTabId || activeTabId)
CurrentActiveTabId_PreferInternal(a, internal) ==
    IF internal # "" THEN internal ELSE a

CurrentActiveTabId(a, internal) == IF IsControlled(a) THEN a ELSE internal

isControlled == IsControlled(activeTabId)
currentActiveTabId == CurrentActiveTabId(activeTabId, internalActiveTabId)

\* mutant: the internal id is never seeded
InitialActiveTabId_Unseeded(t) == ""

\* mutant: the internal id is seeded with the last tab
InitialActiveTabId_Last(t) ==
    IF t.isArray /\ Length(t) > 0 THEN t.items[Length(t)].id ELSE ""

\* useState initialiser of internalActiveTabId
InitialActiveTabId(t) ==
    IF t.isArray /\ Length(t) > 0 THEN t.items[1].id ELSE ""

\* mutant: the first panel is displayed whichever tab is selected
Render_ShowFirst(t, errors, current) ==
    IF Len(errors) > 0
    THEN [kind |-> "errors", errors |-> errors, selected |-> <<>>, shown |-> <<>>]
    ELSE IF ~t.isArray \/ Length(t) = 0
    THEN [kind |-> "empty", errors |-> <<>>, selected |-> <<>>, shown |-> <<>>]
    ELSE [kind |-> "tabs", errors |-> <<>>,
          selected |-> [i \in 1..Length(t) |-> t.items[i].id = current],
          shown |-> [i \in 1..Length(t) |-> i = 1]]

\* what the component function returns
Render(t, errors, current) ==
    IF Len(errors) > 0
    THEN [kind |-> "errors", errors |-> errors, selected |-> <<>>, shown |-> <<>>]
    ELSE IF ~t.isArray \/ Length(t) = 0
    THEN [kind |-> "empty", errors |-> <<>>, selected |-> <<>>, shown |-> <<>>]
    ELSE [kind |-> "tabs", errors |-> <<>>,
          selected |-> [i \in 1..Length(t) |-> t.items[i].id = current],
          shown |-> [i \in 1..Length(t) |-> t.items[i].id = current]]

Output == Render(tabs, validationErrors, currentActiveTabId)

(***************************************************************************)
(* The event handlers.  Each takes the values its closure captured in the  *)
(* last render and returns what it did: setTo, the argument of the last    *)
(* setInternalActiveTabId call (empty when there was none); calls, the     *)
(* descriptors passed to onTabChange in order; focus, the tab holding      *)
(* focus afterwards (1-based, 0 for none); prevented, whether              *)
(* preventDefault was called.                                              *)
(***************************************************************************)
Did(setTo, made, focus, prevented) ==
    [setTo |-> setTo, calls |-> made, focus |-> focus, prevented |-> prevented]

\* mutant: the notification carries the first descriptor of the list
HandleTabClick_NotifyFirst(t, a, cb, tabId, foc) ==
    LET clickedTab == Find(t, tabId)
    IN  Did(IF ~IsControlled(a) THEN <<tabId>> ELSE <<>>,
            IF clickedTab # <<>> /\ cb THEN At(t, 0) ELSE <<>>,
            foc, FALSE)

\* mutant: the label of the clicked tab is stored as the active id
HandleTabClick_SetsLabel(t, a, cb, tabId, foc) ==
    LET clickedTab == Find(t, tabId)
    IN  Did(IF ~IsControlled(a) /\ clickedTab # <<>> THEN <<clickedTab[1].label>> ELSE <<>>,
            IF clickedTab # <<>> /\ cb THEN clickedTab ELSE <<>>,
            foc, FALSE)

\* mutant: a controlled instance leaves the notification to its host
HandleTabClick_ControlledSilent(t, a, cb, tabId, foc) ==
    LET clickedTab == Find(t, tabId)
    IN  Did(IF ~IsControlled(a) THEN <<tabId>> ELSE <<>>,
            IF clickedTab # <<>> /\ cb /\ ~IsControlled(a) THEN clickedTab ELSE <<>>,
            foc, FALSE)

HandleTabClick(t, a, cb, tabId, foc) ==
    LET clickedTab == Find(t, tabId)
    IN  Did(IF ~IsControlled(a) THEN <<tabId>> ELSE <<>>,
            IF clickedTab # <<>> /\ cb THEN clickedTab ELSE <<>>,
            foc, FALSE)

\* mutant: no guard for the tab that is already active
HandleTabFocus_Unguarded(t, a, internal, cb, tabId, foc) ==
    LET focusedTab == Find(t, tabId)
    IN  Did(IF ~IsControlled(a) THEN <<tabId>> ELSE <<>>,
            IF focusedTab # <<>> /\ cb THEN focusedTab ELSE <<>>,
            foc, FALSE)

\* mutant: focus notifies but does not activate
HandleTabFocus_NotifyOnly(t, a, internal, cb, tabId, foc) ==
    IF tabId # CurrentActiveTabId(a, internal)
    THEN LET focusedTab == Find(t, tabId)
         IN  Did(<<>>, IF focusedTab # <<>> /\ cb THEN focusedTab ELSE <<>>,
                 foc, FALSE)
    ELSE Did(<<>>, <<>>, foc, FALSE)

\* mutant: the focus handler stores the id in controlled mode too
HandleTabFocus_AlwaysSets(t, a, internal, cb, tabId, foc) ==
    IF tabId # CurrentActiveTabId(a, internal)
    THEN LET focusedTab == Find(t, tabId)
         IN  Did(<<tabId>>, IF focusedTab # <<>> /\ cb THEN focusedTab ELSE <<>>,
                 foc, FALSE)
    ELSE Did(<<>>, <<>>, foc, FALSE)

HandleTabFocus(t, a, internal, cb, tabId, foc) ==
    IF tabId # CurrentActiveTabId(a, internal)
    THEN LET focusedTab == Find(t, tabId)
         IN  Did(IF ~IsControlled(a) THEN <<tabId>> ELSE <<>>,
                 IF focusedTab # <<>> /\ cb THEN focusedTab ELSE <<>>,
                 foc, FALSE)
    ELSE Did(<<>>, <<>>, foc, FALSE)

\* mutant: the ends of the strip stop the movement
NextIndex_NoWrap(key, currentIndex, length) ==
    IF key = "ArrowLeft"
    THEN (IF currentIndex > 0 THEN currentIndex - 1 ELSE 0)
    ELSE (IF currentIndex < length - 1 THEN currentIndex + 1 ELSE length - 1)

\* mutant: the two directions are exchanged
NextIndex_Swapped(key, currentIndex, length) ==
    IF key = "ArrowRight"
    THEN (IF currentIndex > 0 THEN currentIndex - 1 ELSE length - 1)
    ELSE (IF currentIndex < length - 1 THEN currentIndex + 1 ELSE 0)

\* mutant: ArrowLeft stops at the first tab
NextIndex_LeftStops(key, currentIndex, length) ==
    IF key = "ArrowLeft"
    THEN (IF currentIndex > 0 THEN currentIndex - 1 ELSE 0)
    ELSE (IF currentIndex < length - 1 THEN currentIndex + 1 ELSE 0)

\* mutant: an active id that is not found resolves no target
NextIndex_StaleStays(key, currentIndex, length) ==
    IF currentIndex = -1 THEN -1
    ELSE IF key = "ArrowLeft"
    THEN (IF currentIndex > 0 THEN currentIndex - 1 ELSE length - 1)
    ELSE (IF currentIndex < length - 1 THEN currentIndex + 1 ELSE 0)

\* the wraparound arithmetic of handleKeyDown, indexes 0-based
NextIndex(key, currentIndex, length) ==
    IF key = "ArrowLeft"
    THEN (IF currentIndex > 0 THEN currentIndex - 1 ELSE length - 1)
    ELSE (IF currentIndex < length - 1 THEN currentIndex + 1 ELSE 0)

\* tabListRef.current.querySelector(`#tab-${id}`): the first element with that id attribute, or
\* none when the id is no CSS identifier and the text parses as another
\* selector ('#tab-c d' selects the d elements inside #tab-c: there are none)
QueryTab(t, id) == IF id \in NotIdentifiers THEN 0 ELSE FindIndex(t, id) + 1

\* mutant: preventDefault is called in the ArrowRight branch only
HandleKeyDown_PreventRightOnly(t, a, internal, cb, key, foc) ==
    LET currentIndex == FindIndex(t, CurrentActiveTabId(a, internal))
        nextIndex == NextIndex(key, currentIndex, Length(t))
        nextTab == At(t, nextIndex)
    IN  IF (key = "ArrowLeft" \/ key = "ArrowRight") /\ nextTab # <<>>
        THEN LET element == QueryTab(t, nextTab[1].id)
                 moved == element # 0 /\ element # foc
             IN  Did(IF ~IsControlled(a) THEN <<nextTab[1].id>> ELSE <<>>,
                     (IF cb THEN nextTab ELSE <<>>)
                        \o (IF moved
                            THEN HandleTabFocus(t, a, internal, cb,
                                                t.items[element].id, element).calls
                            ELSE <<>>),
                     IF moved THEN element ELSE foc, key = "ArrowRight")
        ELSE Did(<<>>, <<>>, foc, key = "ArrowRight")

\* mutant: preventDefault is called before the key is looked at
HandleKeyDown_PreventAll(t, a, internal, cb, key, foc) ==
    LET currentIndex == FindIndex(t, CurrentActiveTabId(a, internal))
        nextIndex == NextIndex(key, currentIndex, Length(t))
        nextTab == At(t, nextIndex)
    IN  IF (key = "ArrowLeft" \/ key = "ArrowRight") /\ nextTab # <<>>
        THEN LET element == QueryTab(t, nextTab[1].id)
                 moved == element # 0 /\ element # foc
             IN  Did(IF ~IsControlled(a) THEN <<nextTab[1].id>> ELSE <<>>,
                     (IF cb THEN nextTab ELSE <<>>)
                        \o (IF moved
                            THEN HandleTabFocus(t, a, internal, cb,
                                                t.items[element].id, element).calls
                            ELSE <<>>),
                     IF moved THEN element ELSE foc, TRUE)
        ELSE Did(<<>>, <<>>, foc, TRUE)

HandleKeyDown(t, a, internal, cb, key, foc) ==
    IF key = "ArrowLeft" \/ key = "ArrowRight"
    THEN LET currentIndex == FindIndex(t, CurrentActiveTabId(a, internal))
             nextIndex == NextIndex(key, currentIndex, Length(t))
             nextTab == At(t, nextIndex)
         IN  IF nextTab # <<>>
             THEN LET setTo == IF ~IsControlled(a) THEN <<nextTab[1].id>> ELSE <<>>
                      made == IF cb THEN nextTab ELSE <<>>
                      element == QueryTab(t, nextTab[1].id)
                  IN  IF element # 0 /\ element # foc
                      THEN \* focus() moves focus: the tab's focus handler runs
                           \* now, inside this handler, with the same closure
                           LET inner == HandleTabFocus(t, a, internal, cb,
                                                       t.items[element].id, element)
                           IN  Did(IF inner.setTo # <<>> THEN inner.setTo ELSE setTo,
                                   made \o inner.calls, element, TRUE)
                      ELSE Did(setTo, made, foc, TRUE)
             ELSE Did(<<>>, <<>>, foc, TRUE)
    ELSE Did(<<>>, <<>>, foc, FALSE)

(***************************************************************************)
(* The end-to-end arrow scenario: mount t1,t2,t3 uncontrolled with a       *)
(* change callback (step 1, where focusing or clicking the first tab       *)
(* stays), ArrowRight (2), ArrowRight (3), ArrowLeft (4).  Any other event *)
(* or host render leaves the scenario (0).                                 *)
(***************************************************************************)
ScenarioTabs == Array(<<TabObject("a"), TabObject("b"), TabObject("c")>>)

ScenarioStart(t, a, cb) ==
    IF t = ScenarioTabs /\ a = Undefined /\ cb THEN 1 ELSE 0

ScenarioNext(step, type, key, target) ==
    IF step = 1 /\ type \in {"focus", "click"} /\ target = 1 THEN 1
    ELSE IF step = 1 /\ type = "keydown" /\ key = "ArrowRight" THEN 2
    ELSE IF step = 2 /\ type = "keydown" /\ key = "ArrowRight" THEN 3
    ELSE IF step = 3 /\ type = "keydown" /\ key = "ArrowLeft" THEN 4
    ELSE 0

(***************************************************************************)
(* Commit helpers.                                                         *)
(***************************************************************************)
\* validationErrors once the pending effect, if any, has run
FlushedErrors == IF effectPending THEN Validate(tabs) ELSE validationErrors

\* tab elements exist only in the tab strip: focus is lost with them
KeepFocus(out, foc) == IF out.kind = "tabs" THEN foc ELSE 0

Event(type, key, target, prevented) ==
    [type |-> type, key |-> key, target |-> target, defaultPrevented |-> prevented]

\* a handler has run: apply its state update and re-render if state changed
Applied(type, key, target, did) ==
    LET internal == IF did.setTo # <<>> THEN did.setTo[1] ELSE internalActiveTabId
        changed == internal # internalActiveTabId
        errors == IF changed THEN FlushedErrors ELSE validationErrors
    IN  /\ internalActiveTabId' = internal
        /\ validationErrors' = errors
        /\ effectPending' = (effectPending /\ ~changed)
        /\ focused' = KeepFocus(Render(tabs, errors,
                                       CurrentActiveTabId(activeTabId, internal)),
                                did.focus)
        /\ calls' = did.calls
        /\ event' = Event(type, key, target, did.prevented)
        /\ scenarioStep' = ScenarioNext(scenarioStep, type, key, target)
        /\ UNCHANGED <<tabs, activeTabId, onTabChange>>

Handled(type, key, target, did) ==
    Applied(type, key, target, did) /\ UNCHANGED twin

(***************************************************************************)
(* Initial state: the commit of the mount render.                          *)
(***************************************************************************)
Init ==
    /\ tabs \in TabInputs
    /\ activeTabId \in ActiveIdInputs
    /\ onTabChange \in BOOLEAN
    /\ validationErrors = <<>>
    /\ internalActiveTabId = InitialActiveTabId(tabs)
    /\ effectPending = TRUE
    /\ focused = 0
    /\ event = Event("mount", "", 0, FALSE)
    /\ calls = <<>>
    /\ scenarioStep = ScenarioStart(tabs, activeTabId, onTabChange)
    /\ twin = NoTwin

(***************************************************************************)
(* Actions.                                                                *)
(***************************************************************************)
\* the useEffect callback runs and its setValidationErrors re-renders
RunEffect ==
    /\ effectPending
    /\ effectPending' = FALSE
    /\ IF ValidateThrows(tabs)
       THEN \* the TypeError leaves the effect: no state is set
            /\ event' = Event("error", "", 0, FALSE)
            /\ focused' = 0
            /\ UNCHANGED validationErrors
       ELSE /\ validationErrors' = Validate(tabs)
            /\ focused' = KeepFocus(Render(tabs, Validate(tabs), currentActiveTabId),
                                    focused)
            /\ UNCHANGED event
    /\ UNCHANGED <<tabs, activeTabId, onTabChange, internalActiveTabId, calls,
                   scenarioStep, twin>>

\* a host render: pending effects run first, then the component function
\* mutant: every render seeds the internal id from the list it is given
HostRendered_Reseed(t, a, cb, foc) ==
    /\ tabs' = t
    /\ activeTabId' = a
    /\ onTabChange' = cb
    /\ validationErrors' = FlushedErrors
    /\ focused' = KeepFocus(Render(t, FlushedErrors,
                                   CurrentActiveTabId(a, InitialActiveTabId(t))), foc)
    /\ event' = Event("render", "", 0, FALSE)
    /\ calls' = <<>>
    /\ scenarioStep' = 0
    /\ internalActiveTabId' = InitialActiveTabId(t)
    /\ UNCHANGED twin

HostRendered(t, a, cb, foc) ==
    /\ tabs' = t
    /\ activeTabId' = a
    /\ onTabChange' = cb
    /\ validationErrors' = FlushedErrors
    /\ focused' = KeepFocus(Render(t, FlushedErrors,
                                   CurrentActiveTabId(a, internalActiveTabId)), foc)
    /\ event' = Event("render", "", 0, FALSE)
    /\ calls' = <<>>
    /\ scenarioStep' = 0
    /\ UNCHANGED <<internalActiveTabId, twin>>

\* mutant: the effect has no dependency on tabs and runs after the mount only
HostSetTabs_NoRevalidate(t) ==
    /\ LET key == IF focused = 0 THEN Undefined ELSE tabs.items[focused].id
           same == IF focused = 0 THEN {}
                   ELSE {i \in 1..Length(t) : t.items[i].id = key}
       IN  \E foc \in (IF same = {} THEN {0} ELSE same) :
               HostRendered(t, activeTabId, onTabChange, foc)
    /\ effectPending' = FALSE

\* the host passes a new tabs array; a focused tab survives when its key does
HostSetTabs(t) ==
    /\ LET key == IF focused = 0 THEN Undefined ELSE tabs.items[focused].id
           same == IF focused = 0 THEN {}
                   ELSE {i \in 1..Length(t) : t.items[i].id = key}
       IN  \E foc \in (IF same = {} THEN {0} ELSE same) :
               HostRendered(t, activeTabId, onTabChange, foc)
    /\ effectPending' = TRUE

HostSetActiveTabId(a) ==
    /\ a # activeTabId
    /\ HostRendered(tabs, a, onTabChange, focused)
    /\ effectPending' = FALSE

HostSetOnTabChange(cb) ==
    /\ cb # onTabChange
    /\ HostRendered(tabs, activeTabId, cb, focused)
    /\ effectPending' = FALSE

\* mutant: a click on the active tab is ignored, as a focus event is
Click_Guarded(k) ==
    /\ Output.kind = "tabs"
    /\ Handled("click", "", k,
               HandleTabFocus(tabs, activeTabId, internalActiveTabId, onTabChange,
                              tabs.items[k].id, focused))

\* a click event on the k-th rendered tab
Click(k) ==
    /\ Output.kind = "tabs"
    /\ Handled("click", "", k,
               HandleTabClick(tabs, activeTabId, onTabChange, tabs.items[k].id, focused))

\* the k-th rendered tab gains focus
Focus(k) ==
    /\ Output.kind = "tabs"
    /\ focused # k
    /\ Handled("focus", "", k,
               HandleTabFocus(tabs, activeTabId, internalActiveTabId, onTabChange,
                              tabs.items[k].id, k))

\* a keydown event on the focused tab
KeyDown(key) ==
    /\ Output.kind = "tabs"
    /\ focused # 0
    /\ Handled("keydown", key, focused,
               HandleKeyDown(tabs, activeTabId, internalActiveTabId, onTabChange,
                             key, focused))

\* focus leaves the tab strip
Blur ==
    /\ focused # 0
    /\ focused' = 0
    /\ event' = Event("blur", "", focused, FALSE)
    /\ calls' = <<>>
    /\ scenarioStep' = 0
    /\ UNCHANGED <<tabs, activeTabId, onTabChange, validationErrors,
                   internalActiveTabId, effectPending, twin>>

Keys == {"ArrowLeft", "ArrowRight", "Tab"}

Next ==
    \/ RunEffect
    \/ \E t \in NextTabInputs(tabs) : HostSetTabs(t)
    \/ \E a \in ActiveIdInputs : HostSetActiveTabId(a)
    \/ \E cb \in BOOLEAN : HostSetOnTabChange(cb)
    \/ \E k \in 1..Length(tabs) : Click(k)
    \/ \E k \in 1..Length(tabs) : Focus(k)
    \/ \E key \in Keys : KeyDown(key)
    \/ Blur

Spec == Init /\ [][Next]_vars

\* An instance mounted without a change callback, in either mode, with every
\* host render and every event; React runs the passive effects of every
\* commit, which is the weak fairness of RunEffect.
InitFair == Init /\ onTabChange = FALSE

NextFair ==
    \/ RunEffect
    \/ \E t \in NextTabInputs(tabs) : HostSetTabs(t)
    \/ \E a \in ActiveIdInputs : HostSetActiveTabId(a)
    \/ \E k \in 1..Length(tabs) : Click(k)
    \/ \E k \in 1..Length(tabs) : Focus(k)
    \/ \E key \in Keys : KeyDown(key)
    \/ Blur

SpecFair == InitFair /\ [][NextFair]_vars /\ WF_vars(RunEffect)

(***************************************************************************)
(* The validation effect on its own: an instance mounted with the list     *)
(* PreviousTabs and validated has been re-rendered with any list of        *)
(* ValidatorInputs (the render pass returns the problem report of          *)
(* PreviousTabs and reads no entry), and the effect of that commit runs.   *)
(***************************************************************************)
\* a mounted instance with a valid list that the host leaves alone
InitSelector ==
    /\ tabs \in SelectorInputs
    /\ activeTabId \in {Undefined} \cup SelectorIds
    /\ onTabChange \in BOOLEAN
    /\ validationErrors = <<>>
    /\ internalActiveTabId = InitialActiveTabId(tabs)
    /\ effectPending = TRUE
    /\ focused = 0
    /\ event = Event("mount", "", 0, FALSE)
    /\ calls = <<>>
    /\ scenarioStep = 0
    /\ twin = NoTwin

NextSelector ==
    \/ RunEffect
    \/ \E k \in 1..Length(tabs) : Click(k)
    \/ \E k \in 1..Length(tabs) : Focus(k)
    \/ \E key \in Keys : KeyDown(key)
    \/ Blur

SpecSelector == InitSelector /\ [][NextSelector]_vars

\* An uncontrolled instance and its twin, mounted with the same valid list
\* and notification callback; the twin's host starts it at the first tab.
InitEcho ==
    /\ tabs \in SelectorInputs
    /\ activeTabId = Undefined
    /\ onTabChange = TRUE
    /\ validationErrors = <<>>
    /\ internalActiveTabId = InitialActiveTabId(tabs)
    /\ effectPending = TRUE
    /\ focused = 0
    /\ event = Event("mount", "", 0, FALSE)
    /\ calls = <<>>
    /\ scenarioStep = 0
    /\ twin = [activeTabId |-> tabs.items[1].id, internal |-> InitialActiveTabId(tabs),
               focused |-> 0, calls |-> <<>>]

\* a handler of the twin has run: its state update is applied and its host
\* re-renders it with the id of the descriptor it was notified of last
TwinHandled(did) ==
    twin' = [activeTabId |-> IF did.calls # <<>> THEN did.calls[Len(did.calls)].id
                             ELSE twin.activeTabId,
             internal |-> IF did.setTo # <<>> THEN did.setTo[1] ELSE twin.internal,
             focused |-> did.focus,
             calls |-> did.calls]

\* the same click, focus-gained, keydown or blur event on both instances
EchoClick(k) ==
    /\ Output.kind = "tabs"
    /\ Applied("click", "", k,
               HandleTabClick(tabs, activeTabId, onTabChange, tabs.items[k].id, focused))
    /\ TwinHandled(HandleTabClick(tabs, twin.activeTabId, onTabChange,
                                  tabs.items[k].id, twin.focused))

EchoFocus(k) ==
    /\ Output.kind = "tabs"
    /\ focused # k
    /\ twin.focused # k
    /\ Applied("focus", "", k,
               HandleTabFocus(tabs, activeTabId, internalActiveTabId, onTabChange,
                              tabs.items[k].id, k))
    /\ TwinHandled(HandleTabFocus(tabs, twin.activeTabId, twin.internal, onTabChange,
                                  tabs.items[k].id, k))

EchoKeyDown(key) ==
    /\ Output.kind = "tabs"
    /\ focused # 0
    /\ twin.focused # 0
    /\ Applied("keydown", key, focused,
               HandleKeyDown(tabs, activeTabId, internalActiveTabId, onTabChange,
                             key, focused))
    /\ TwinHandled(HandleKeyDown(tabs, twin.activeTabId, twin.internal, onTabChange,
                                 key, twin.focused))

EchoBlur ==
    /\ focused # 0
    /\ twin.focused # 0
    /\ focused' = 0
    /\ event' = Event("blur", "", focused, FALSE)
    /\ calls' = <<>>
    /\ twin' = [twin EXCEPT !.focused = 0, !.calls = <<>>]
    /\ UNCHANGED <<tabs, activeTabId, onTabChange, validationErrors,
                   internalActiveTabId, effectPending, scenarioStep>>

NextEcho ==
    \/ RunEffect
    \/ \E k \in 1..Length(tabs) : EchoClick(k)
    \/ \E k \in 1..Length(tabs) : EchoFocus(k)
    \/ \E key \in Keys : EchoKeyDown(key)
    \/ EchoBlur

SpecEcho == InitEcho /\ [][NextEcho]_vars

PreviousTabs == Array(<<Malformed>>)

InitValidator ==
    /\ tabs \in ValidatorInputs
    /\ activeTabId = Undefined
    /\ onTabChange = TRUE
    /\ validationErrors = Validate(PreviousTabs)
    /\ internalActiveTabId = InitialActiveTabId(PreviousTabs)
    /\ effectPending = TRUE
    /\ focused = 0
    /\ event = Event("render", "", 0, FALSE)
    /\ calls = <<>>
    /\ scenarioStep = 0
    /\ twin = NoTwin

NextValidator == RunEffect

SpecValidator == InitValidator /\ [][NextValidator]_vars

TypeOK ==
    /\ tabs \in TabInputs
    /\ activeTabId \in ActiveIdInputs
    /\ onTabChange \in BOOLEAN
    /\ effectPending \in BOOLEAN
    /\ focused \in 0..Length(tabs)
    /\ (focused # 0 => Output.kind = "tabs")
    /\ Len(calls) <= 2
    /\ scenarioStep \in 0..4

(***************************************************************************)
(* Properties.                                                             *)
(***************************************************************************)
\* id is empty while the list t is empty or absent, or names a tab of t
ActiveIdOK(t, id) ==
    IF Length(t) = 0 THEN id = ""
    ELSE \E i \in 1..Length(t) : t.items[i].id = id

\* t renders as the normal tab strip once validated
ValidTabs(t) == t.isArray /\ Length(t) > 0 /\ Validate(t) = <<>>

ArrowKeys == {"ArrowLeft", "ArrowRight"}

\* the step is the handling of a click on, a focus-gained event of, the k-th
\* tab, or of a keydown of key
ClickStep(k) == event'.type = "click" /\ event'.target = k /\ Click(k)
FocusStep(k) == event'.type = "focus" /\ event'.target = k /\ Focus(k)
KeyDownStep(key) == event'.type = "keydown" /\ event'.key = key /\ KeyDown(key)

\* C1 as stated: in every reachable state the current active id is empty
\* while the tab list is empty, or is the id of a tab of the current list.
C1_ActiveIdAlwaysInList == ActiveIdOK(tabs, currentActiveTabId)

\* C1 amended: the widget's own active id is empty or names a tab of the
\* list at mount, and no step that keeps the tab list makes it name an
\* absent tab, so that the active id of an uncontrolled instance names a tab
\* of the list for as long as the host does not replace the list.
C1_ActiveIdInListWhileListKept ==
    /\ ActiveIdOK(tabs, internalActiveTabId)
    /\ [][(tabs' = tabs /\ ActiveIdOK(tabs, internalActiveTabId))
            => /\ ActiveIdOK(tabs', internalActiveTabId')
               /\ (~isControlled' => ActiveIdOK(tabs', currentActiveTabId'))]_vars

C1_Witness ==
    /\ event.type = "keydown"
    /\ ~isControlled
    /\ Length(tabs) >= 2
    /\ currentActiveTabId # tabs.items[1].id
    /\ ActiveIdOK(tabs, currentActiveTabId)

C3_ArrowKeySelectsInControlledMode ==
    [][\A key \in ArrowKeys :
         (KeyDownStep(key) /\ isControlled /\ ValidTabs(tabs)) =>
            LET n == Length(tabs)
                i == FindIndex(tabs, activeTabId)
            IN  /\ (key = "ArrowLeft" /\ i = 1 => Output'.selected[1])
                /\ (key = "ArrowLeft" /\ i = 0 => Output'.selected[n])
                /\ (key = "ArrowRight" /\ i = n - 1 => Output'.selected[1])]_vars

\* C4: in uncontrolled mode with a valid list of n tabs and the active tab
\* at index i, ArrowLeft makes the tab at (i-1) mod n active and ArrowRight
\* the tab at (i+1) mod n.
C4_ArrowWraparound ==
    [][\A key \in ArrowKeys :
         (KeyDownStep(key) /\ ~isControlled /\ ValidTabs(tabs)
            /\ FindIndex(tabs, currentActiveTabId) >= 0) =>
            LET n == Length(tabs)
                i == FindIndex(tabs, currentActiveTabId)
                j == IF key = "ArrowLeft" THEN (i - 1 + n) % n ELSE (i + 1) % n
            IN  currentActiveTabId' = tabs.items[j + 1].id]_vars

C4_Witness ==
    /\ event.type = "keydown"
    /\ event.key = "ArrowLeft"
    /\ ~isControlled
    /\ ValidTabs(tabs)
    /\ Length(tabs) = 3
    /\ currentActiveTabId = tabs.items[3].id

\* C5: at mount in uncontrolled mode the active id is the id of the first
\* tab when the list is non-empty, and empty when it is empty or absent.
C5_DefaultActivation ==
    (event.type = "mount" /\ ~isControlled) =>
        /\ (tabs.isArray /\ Length(tabs) > 0 => currentActiveTabId = tabs.items[1].id)
        /\ (~tabs.isArray \/ Length(tabs) = 0 => currentActiveTabId = "")

C5_Witness ==
    /\ event.type = "mount"
    /\ ~isControlled
    /\ ValidTabs(tabs)
    /\ Length(tabs) = 3
    /\ currentActiveTabId = tabs.items[1].id

C7_FocusGuard ==
    [][\A k \in 1..Length(tabs) :
         (FocusStep(k) /\ tabs.items[k].id = currentActiveTabId) =>
            /\ calls' = <<>>
            /\ UNCHANGED <<tabs, activeTabId, onTabChange, validationErrors,
                           internalActiveTabId, effectPending>>]_vars

C7_Witness ==
    /\ event.type = "focus"
    /\ onTabChange
    /\ ~isControlled
    /\ tabs.items[event.target].id = currentActiveTabId
    /\ calls = <<>>

NotifiedOnly(d) == calls # <<>> /\ \A i \in 1..Len(calls) : calls[i] = d

\* C9: with t1,t2,t3 uncontrolled the active id is t1 at mount, t2 and then
\* t3 after two ArrowRight presses and t2 again after an ArrowLeft press,
\* and each of the three transitions fires onTabChange with the descriptor of
\* the tab that became active.
C9_ArrowScenario ==
    /\ (scenarioStep = 1 => currentActiveTabId = "a")
    /\ (scenarioStep = 2 => currentActiveTabId = "b" /\ NotifiedOnly(TabObject("b")))
    /\ (scenarioStep = 3 => currentActiveTabId = "c" /\ NotifiedOnly(TabObject("c")))
    /\ (scenarioStep = 4 => currentActiveTabId = "b" /\ NotifiedOnly(TabObject("b")))

C9_Witness ==
    /\ scenarioStep = 4
    /\ tabs = ScenarioTabs
    /\ event.key = "ArrowLeft"

\* C10 as stated: in every render pass whose tab list has a validation
\* problem the output is the problem report listing all detected problems,
\* never the tab strip and never the neutral placeholder.
C10_InvalidInputReplacesRendering ==
    Validate(tabs) # <<>> =>
        Output.kind = "errors" /\ Output.errors = Validate(tabs)

ValidatorThrew == event.type = "error"

\* C12 as stated: the validation pass completes for every tab list input,
\* also one containing an entry that is itself null or undefined.
C12_ValidatorNeverThrows == ~ValidatorThrew

\* no entry of t is null or undefined
AllObjects(t) == \A i \in 1..Length(t) : t.items[i] # NullEntry

\* the value is neither undefined nor null
Present(v) == v # Undefined /\ v # Null

\* the descriptors of t carry distinct non-empty ids, a non-empty label and
\* present content
WellFormed(t) ==
    /\ AllObjects(t)
    /\ \A i \in 1..Length(t) :
          /\ Present(t.items[i].id) /\ t.items[i].id # ""
          /\ Present(t.items[i].label) /\ t.items[i].label # ""
          /\ Present(t.items[i].content)
    /\ \A i, j \in 1..Length(t) : i # j => t.items[i].id # t.items[j].id

\* C13: for every list of N >= 1 well-formed descriptors the Validator
\* returns an empty problem sequence and the widget renders the tab strip.
C13_ValidListHasNoProblems ==
    (~effectPending /\ tabs.isArray /\ Length(tabs) >= 1 /\ WellFormed(tabs))
        => validationErrors = <<>> /\ Output.kind = "tabs"

C13_Witness ==
    /\ ~effectPending
    /\ Length(tabs) = 2
    /\ WellFormed(tabs)
    /\ validationErrors = <<>>
    /\ Output.kind = "tabs"

\* the effect has stored its result for a list of objects
Validated ==
    /\ ~effectPending
    /\ tabs.isArray
    /\ Length(tabs) >= 1
    /\ AllObjects(tabs)

Fields == {"id", "label", "content"}
Rank(field) == CASE field = "id" -> 1 [] field = "label" -> 2 [] field = "content" -> 3

\* the required field is missing from the descriptor
MissingField(tab, field) ==
    CASE field = "id" -> tab.id \in {Undefined, Null, ""}
      [] field = "label" -> tab.label \in {Undefined, Null, ""}
      [] field = "content" -> tab.content \in {Undefined, Null}

\* the problems of the single entries, in reporting order
PerEntryErrors == SelectSeq(validationErrors, LAMBDA e : e.kind \in Fields)

\* C14: the Validator reports exactly one problem for every missing required
\* field of every entry; the problems of entry i precede those of entry j for
\* i < j, and within one entry the order is id, label, content.
C14_OneProblemPerMissingField ==
    Validated =>
        /\ \A i \in 1..Length(tabs) : \A f \in Fields :
              Cardinality({k \in 1..Len(PerEntryErrors) :
                              PerEntryErrors[k] = [kind |-> f, index |-> i - 1]})
                  = IF MissingField(tabs.items[i], f) THEN 1 ELSE 0
        /\ \A k \in 1..Len(PerEntryErrors) :
              PerEntryErrors[k].index \in 0..(Length(tabs) - 1)
        /\ \A k, l \in 1..Len(PerEntryErrors) :
              k < l =>
                  \/ PerEntryErrors[k].index < PerEntryErrors[l].index
                  \/ /\ PerEntryErrors[k].index = PerEntryErrors[l].index
                     /\ Rank(PerEntryErrors[k].kind) < Rank(PerEntryErrors[l].kind)

\* two entries, the first lacking label and content, the second all three
C14_Witness ==
    /\ Validated
    /\ Length(tabs) = 2
    /\ PerEntryErrors = <<MissingError("label", 0), MissingError("content", 0),
                          MissingError("id", 1), MissingError("label", 1),
                          MissingError("content", 1)>>

\* two entries of t carry the same non-empty id
SharesId(t) ==
    \E i, j \in 1..Length(t) :
        /\ i # j
        /\ t.items[i].id = t.items[j].id
        /\ t.items[i].id \notin {Undefined, Null, ""}

DuplicateErrorCount ==
    Cardinality({k \in 1..Len(validationErrors) : validationErrors[k] = DuplicateError})

\* C15: the duplicate-id problem is reported exactly once, after all per-entry
\* problems, when at least two entries share a non-empty id, and not at all
\* when the non-empty ids are distinct; missing ids are no duplicates.
C15_DuplicateIdsReportedOnceLast ==
    Validated =>
        IF SharesId(tabs)
        THEN /\ DuplicateErrorCount = 1
             /\ validationErrors[Len(validationErrors)] = DuplicateError
        ELSE DuplicateErrorCount = 0

\* a shared id is reported once after the problems of the single entries
C15_Witness ==
    /\ Validated
    /\ SharesId(tabs)
    /\ Len(validationErrors) >= 2
    /\ DuplicateErrorCount = 1
    /\ validationErrors[Len(validationErrors)] = DuplicateError

\* C16: for a present list of length 0 the Validator reports exactly one
\* problem, that no tabs were provided.
C16_EmptyListHasOneProblem ==
    (~effectPending /\ tabs = Array(<<>>)) => validationErrors = <<NoTabsError>>

C16_Witness ==
    /\ ~effectPending
    /\ tabs = Array(<<>>)
    /\ validationErrors = <<NoTabsError>>
    /\ Output.kind = "errors"

\* C17 as stated: while the tab list is null or undefined the Validator has
\* no problem for it and every render pass shows the neutral placeholder,
\* never the problem report and never the tab strip.
C17_AbsentShowsPlaceholder ==
    ~tabs.isArray => (Validate(tabs) = <<>> /\ Output.kind = "empty")

\* the tabs rendered with aria-selected true, the panels rendered visible
SelectedTabs == {i \in 1..Len(Output.selected) : Output.selected[i]}
ShownPanels == {i \in 1..Len(Output.shown) : Output.shown[i]}

\* C18 as stated: in every render pass that shows the tab strip exactly one
\* tab is selected and exactly one panel is displayed, that of the selected
\* tab.
C18_ExactlyOneTabPresented ==
    Output.kind = "tabs" =>
        /\ Cardinality(SelectedTabs) = 1
        /\ ShownPanels = SelectedTabs

\* C18 amended: in every render pass that shows the tab strip the displayed
\* panels are exactly the panels of the selected tabs and the selected tabs
\* are exactly the tabs whose id is the active id; that is exactly one tab
\* when the list passes validation and the active id names one of its tabs,
\* and no tab and no panel when the active id names no tab of the list.
C18_PanelsFollowSelection ==
    Output.kind = "tabs" =>
        /\ ShownPanels = SelectedTabs
        /\ SelectedTabs = {i \in 1..Length(tabs) : tabs.items[i].id = currentActiveTabId}
        /\ (ValidTabs(tabs) /\ ActiveIdOK(tabs, currentActiveTabId))
              => Cardinality(SelectedTabs) = 1
        /\ ~ActiveIdOK(tabs, currentActiveTabId) => SelectedTabs = {}

\* a strip of three tabs presents its second tab and panel only
C18_Witness ==
    /\ Output.kind = "tabs"
    /\ Length(tabs) = 3
    /\ ValidTabs(tabs)
    /\ SelectedTabs = {2}
    /\ ShownPanels = {2}

\* C19: every onTabChange invocation, caused by a click, a focus-gained
\* event or an arrow key, happens inside the handling of that event and
\* passes a descriptor that is an element of the current tab list and whose
\* id is the id the event makes active: the id of the clicked or focused
\* tab, and in uncontrolled mode the id held active after the handler.
C19_NotificationPayload ==
    /\ calls # <<>> => event.type \in {"click", "focus", "keydown"}
    /\ \A i \in 1..Len(calls) :
          /\ \E k \in 1..Length(tabs) : tabs.items[k] = calls[i]
          /\ calls[i].id = calls[1].id
          /\ ~isControlled => calls[i].id = currentActiveTabId
          /\ event.type \in {"click", "focus"}
                => calls[i].id = tabs.items[event.target].id
          /\ event.type = "keydown" => event.key \in ArrowKeys

\* a click on the second of several tabs has notified the host
C19_Witness ==
    /\ event.type = "click"
    /\ event.target = 2
    /\ ~isControlled
    /\ Len(calls) = 1
    /\ calls[1] = tabs.items[2]
    /\ calls[1] # tabs.items[1]
    /\ currentActiveTabId = calls[1].id

\* the index handleKeyDown computes for key, 0-based
ArrowTarget(key) ==
    NextIndex(key, FindIndex(tabs, currentActiveTabId), Length(tabs))

\* C20 as stated: after every ArrowLeft or ArrowRight press that resolves a
\* target tab, input focus is on the tab at the newly computed index, and in
\* uncontrolled mode the focused tab is the active tab.
C20_FocusFollowsArrow ==
    [][\A key \in ArrowKeys :
          (KeyDownStep(key) /\ At(tabs, ArrowTarget(key)) # <<>>)
              => /\ focused' = ArrowTarget(key) + 1
                 /\ ~isControlled => tabs.items[focused'].id = currentActiveTabId']_vars

\* the step is a render the host caused
HostRenderStep == event'.type = "render" /\ calls' = <<>> /\ scenarioStep' = 0

\* C21: the internal active id is seeded once at mount; a later render, also
\* one in which the host supplies a different tab list, leaves it unchanged,
\* and only the click, focus and arrow handlers of an uncontrolled instance
\* change it.
C21_NoReseedingWhileMounted ==
    /\ [][HostRenderStep => internalActiveTabId' = internalActiveTabId]_vars
    /\ [][internalActiveTabId' # internalActiveTabId
            => /\ event'.type \in {"click", "focus", "keydown"}
               /\ ~isControlled]_vars

\* an uncontrolled instance re-rendered with a list that lacks its active tab
C21_Witness ==
    /\ event.type = "render"
    /\ ~isControlled
    /\ Length(tabs) >= 1
    /\ internalActiveTabId \in Ids
    /\ \A i \in 1..Length(tabs) : tabs.items[i].id # internalActiveTabId

\* C22: a keydown of the Tab key, or of any key other than ArrowLeft and
\* ArrowRight, changes no active id, invokes no notification, moves no focus
\* and does not suppress the default handling of the key.
C22_OtherKeysNotIntercepted ==
    [][\A key \in Keys \ ArrowKeys :
          KeyDownStep(key)
              => /\ internalActiveTabId' = internalActiveTabId
                 /\ currentActiveTabId' = currentActiveTabId
                 /\ calls' = <<>>
                 /\ focused' = focused
                 /\ ~event'.defaultPrevented
                 /\ Output' = Output]_vars

\* the Tab key was pressed on the focused second tab
C22_Witness ==
    /\ event.type = "keydown"
    /\ event.key = "Tab"
    /\ event.target = 2
    /\ focused = 2
    /\ ~event.defaultPrevented
    /\ calls = <<>>

\* C23: the Validator reports the content of an entry as missing exactly when
\* it is null or undefined; an empty string is present content.
C23_FalsyContentIsPresent ==
    Validated =>
        \A i \in 1..Length(tabs) :
            (\E k \in 1..Len(validationErrors) :
                validationErrors[k] = MissingError("content", i - 1))
                <=> tabs.items[i].content \in {Undefined, Null}

\* a single entry with the empty string as its content passes validation
C23_Witness ==
    /\ ~effectPending
    /\ tabs = Array(<<[id |-> "a", label |-> "L", content |-> ""]>>)
    /\ validationErrors = <<>>
    /\ Output.kind = "tabs"

\* C24 as stated: in uncontrolled mode with at least two valid tabs the
\* handling of one ArrowLeft or ArrowRight press, the focus-gained event of
\* its own focus command included, invokes onTabChange exactly once.
C24_OneNotificationPerArrowPress ==
    (/\ event.type = "keydown"
     /\ event.key \in ArrowKeys
     /\ ~isControlled
     /\ onTabChange
     /\ ValidTabs(tabs)
     /\ Length(tabs) >= 2)
        => Len(calls) = 1

\* C25 as stated: a pointer activation of a tab that is not active, delivered
\* as a focus-gained event naming the tab and then a click event naming it,
\* invokes onTabChange exactly once.
C25_OneNotificationPerPointerActivation ==
    [][\A k \in 1..Length(tabs) :
          (/\ event.type = "focus"
           /\ event.target = k
           /\ Len(calls) = 1
           /\ ClickStep(k))
              => Len(calls) + Len(calls') = 1]_vars

\* C26: a controlled instance whose host echoes every notification into
\* activeTabId, starting from the first tab's id, shows after every click,
\* focus and arrow event the same active id as an uncontrolled instance
\* given the same valid list and the same events, and has emitted the same
\* notifications.
C26_ControlledEchoEquivalence ==
    twin # NoTwin =>
        /\ CurrentActiveTabId(twin.activeTabId, twin.internal) = currentActiveTabId
        /\ twin.calls = calls

\* both instances have moved from the first to the third tab by ArrowLeft
C26_Witness ==
    /\ twin # NoTwin
    /\ Length(tabs) = 3
    /\ event.type = "keydown"
    /\ event.key = "ArrowLeft"
    /\ currentActiveTabId = tabs.items[3].id
    /\ twin.activeTabId = tabs.items[3].id
    /\ calls # <<>>
    /\ twin.calls = calls

\* C27: in uncontrolled mode, with a valid tab list that is the same in every
\* render since mount, the active id is the id of a tab of the list in every
\* reachable state, after any sequence of click, focus and arrow key events.
C27_ActiveIdInFixedValidList ==
    (~isControlled /\ ValidTabs(tabs))
        => \E i \in 1..Length(tabs) : tabs.items[i].id = currentActiveTabId

\* an arrow key has made the last of three tabs active
C27_Witness ==
    /\ ~isControlled
    /\ ValidTabs(tabs)
    /\ Length(tabs) = 3
    /\ event.type = "keydown"
    /\ currentActiveTabId = tabs.items[3].id

\* the tab an arrow key resolves when the active id is not in the list
StaleTarget(key) ==
    IF key = "ArrowRight" THEN tabs.items[1] ELSE tabs.items[Length(tabs)]

\* C28: when the active id is the id of no tab of the non-empty current list,
\* an ArrowRight press activates the first tab and an ArrowLeft press the
\* last tab, so that in uncontrolled mode the active id is an id of the
\* current list after one arrow key press.
C28_ArrowRecoversStaleSelection ==
    [][\A key \in ArrowKeys :
          (/\ KeyDownStep(key)
           /\ Length(tabs) >= 1
           /\ \A i \in 1..Length(tabs) : tabs.items[i].id # currentActiveTabId)
              => /\ onTabChange => (calls' # <<>> /\ calls'[1] = StaleTarget(key))
                 /\ ~isControlled
                       => /\ internalActiveTabId' = StaleTarget(key).id
                          /\ currentActiveTabId' = StaleTarget(key).id
                          /\ ActiveIdOK(tabs', currentActiveTabId')]_vars

\* ArrowLeft on a controlled instance whose active id names no tab has
\* notified the host of the last tab
C28_Witness ==
    /\ event.type = "keydown"
    /\ event.key = "ArrowLeft"
    /\ Length(tabs) >= 2
    /\ \A i \in 1..Length(tabs) : tabs.items[i].id # currentActiveTabId
    /\ calls # <<>>
    /\ calls[1] = tabs.items[Length(tabs)]

\* C29: no step taken in controlled mode, neither an event handler nor a
\* host render, modifies the internal active id; when the host stops
\* supplying activeTabId the active id is the internal value as it was
\* before, not the last id the host supplied nor the last tab clicked.
C29_ControlledLeavesInternalId ==
    /\ [][isControlled => internalActiveTabId' = internalActiveTabId]_vars
    /\ [][(isControlled /\ ~isControlled')
            => currentActiveTabId' = internalActiveTabId]_vars

\* a controlled instance was clicked on its second tab and notified the host,
\* and its internal id is still the first tab's
C29_Witness ==
    /\ isControlled
    /\ event.type = "click"
    /\ event.target = 2
    /\ calls = <<tabs.items[2]>>
    /\ internalActiveTabId = tabs.items[1].id
    /\ tabs.items[2].id # tabs.items[1].id
    /\ activeTabId # internalActiveTabId

\* the internal active id and the focused tab of an uncontrolled instance
\* after one press of key, and after n presses
Press(key, st) ==
    LET did == HandleKeyDown(tabs, Undefined, st.internal, onTabChange, key, st.focused)
    IN  [internal |-> IF did.setTo # <<>> THEN did.setTo[1] ELSE st.internal,
         focused |-> did.focus]

RECURSIVE Presses(_, _, _)
Presses(key, n, st) == IF n = 0 THEN st ELSE Press(key, Presses(key, n - 1, st))

\* C30: in uncontrolled mode with a valid list of n tabs and the active id in
\* the list, ArrowRight then ArrowLeft, and ArrowLeft then ArrowRight,
\* restore the active id, n presses of the same arrow key return to the
\* starting tab, and every tab becomes active within n-1 presses of the same
\* arrow key; every key press of the instance is such a press.
C30_ArrowNavigationCyclic ==
    /\ [](LET n == Length(tabs)
              st == [internal |-> internalActiveTabId, focused |-> focused]
          IN  (~isControlled /\ ValidTabs(tabs) /\ focused # 0
               /\ ActiveIdOK(tabs, currentActiveTabId))
                 => /\ Press("ArrowLeft", Press("ArrowRight", st)).internal = st.internal
                    /\ Press("ArrowRight", Press("ArrowLeft", st)).internal = st.internal
                    /\ \A key \in ArrowKeys :
                          /\ Presses(key, n, st).internal = st.internal
                          /\ \A i \in 1..n : \E m \in 0..(n - 1) :
                                Presses(key, m, st).internal = tabs.items[i].id)
    /\ [][\A key \in ArrowKeys :
            (KeyDownStep(key) /\ ~isControlled)
                => internalActiveTabId'
                      = Press(key, [internal |-> internalActiveTabId,
                                    focused |-> focused]).internal]_vars

\* ArrowRight on the last of three tabs has wrapped to the first
C30_Witness ==
    /\ ~isControlled
    /\ ValidTabs(tabs)
    /\ Length(tabs) = 3
    /\ event.type = "keydown"
    /\ event.key = "ArrowRight"
    /\ event.target = 3
    /\ currentActiveTabId = tabs.items[1].id

\* C31: the Validator returns an empty result exactly when the list is
\* absent, or is non-empty with every entry carrying a non-empty id, a
\* non-empty label and content that is neither null nor undefined, and all
\* ids pairwise distinct; an entry whose id or label is the empty string is
\* reported as missing that field.
C31_EmptyResultIffValid ==
    ~effectPending =>
        /\ (~ValidatorThrew /\ validationErrors = <<>>)
              <=> (~tabs.isArray \/ (Length(tabs) >= 1 /\ WellFormed(tabs)))
        /\ Validated =>
              \A i \in 1..Length(tabs) : \A f \in {"id", "label"} :
                  tabs.items[i][f] = ""
                      => \E k \in 1..Len(validationErrors) :
                            validationErrors[k] = MissingError(f, i - 1)

\* an entry with the empty string as its id is reported as missing its id
C31_Witness ==
    /\ ~effectPending
    /\ tabs = Array(<<[id |-> "", label |-> "L", content |-> "C"]>>)
    /\ validationErrors = <<MissingError("id", 0)>>

\* C32 as stated: in every render pass whose tab list has no validation
\* problem the output is the tab strip, never the problem report, also in
\* the pass that follows the replacement of an invalid list by a valid one.
C32_ValidListNeverRenderedAsError ==
    ValidTabs(tabs) => Output.kind = "tabs"

\* C33: every ArrowLeft or ArrowRight keydown delivered to a tab has its
\* default handling suppressed, in controlled and in uncontrolled mode.
C33_ArrowDefaultSuppressed ==
    (event.type = "keydown" /\ event.key \in ArrowKeys) => event.defaultPrevented

\* ArrowLeft on a controlled instance, which keeps its active tab
C33_Witness ==
    /\ event.type = "keydown"
    /\ event.key = "ArrowLeft"
    /\ isControlled
    /\ event.defaultPrevented
    /\ Length(tabs) >= 2
    /\ currentActiveTabId = tabs.items[event.target].id

====
